---- MODULE Spec2Model ----
(***************************************************************************)
(* Model of the tag and gender logic of the Matrixify batch scripts:       *)
(*   scripts/2-0-matrixify-segmenter.py      (handle normalizer, segmenter)*)
(*   scripts/4-0-corgi-size_6_7.py           (gender updater)              *)
(*   scripts/4-2-happy-socks-gender-splitter.py  (three-way splitter)      *)
(*   scripts/5-0-unisex-adder.py             (unisex adder)                *)
(*                                                                         *)
(* Python values are records [ty, v]: ty is the Python type name and v a   *)
(* sequence.  A str holds its code points, an int holds <<n>>, None holds  *)
(* <<>>, a list holds its elements (themselves such records).  A text is   *)
(* therefore never equal to a differently cased text, and str.lower,       *)
(* str.strip, str.split, json.dumps and json.loads are computed character  *)
(* by character.                                                           *)
(***************************************************************************)
EXTENDS Integers, Sequences, FiniteSets, TLC

VARIABLES
    script,            \* which script (or which of its functions) is running
    pc,                \* its position: "init", "loop", "called", "saved", "raised",
                       \* "reference", "master", "exit", "encoded", "decoded"
    brand_name,        \* updater prompt: brand filter
    size_label,        \* updater prompt: size filter
    gender,            \* updater prompt / new_gender argument of the merge
    ws_input,          \* data rows of the input worksheet read so far (row 2 on)
    ws_output,         \* output target -> data rows written so far (row 2 on)
    seen_handles,      \* output target -> set of handles already seen
    stats,             \* the script's counters
    tracker_log,       \* history: output target -> <<[key, first]>> per tracker query
    current_genders,   \* gender list before the merge / the unisex step
    updated_genders,   \* gender list after it
    was_changed,       \* the merge's second result
    size_tags,         \* argument of categorize_product
    category,          \* its first result
    gender_list,       \* its second result
    handle,            \* argument of normalize_handle
    normalized,        \* its result
    ws_reference,      \* column B of the reference rows read so far (row 2 on)
    normalized_handles, \* segmenter: set of normalized reference handles
    handle_mapping,    \* segmenter: normalized -> original reference handle
    ws_master,         \* data rows of the master worksheet read so far
    matching_rows,     \* segmenter: the rows extracted so far
    cell_text          \* codec: the cell text format_json_list returned

vars == <<script, pc, brand_name, size_label, gender, ws_input, ws_output,
          seen_handles, stats, tracker_log, current_genders, updated_genders,
          was_changed, size_tags, category, gender_list, handle, normalized,
          ws_reference, normalized_handles, handle_mapping, ws_master,
          matching_rows, cell_text>>

passVars == <<ws_input, ws_output, seen_handles, tracker_log>>
promptVars == <<brand_name, size_label>>
mergeVars == <<current_genders, updated_genders, was_changed>>
classVars == <<size_tags, category, gender_list>>
normVars == <<handle, normalized>>
segVars == <<ws_reference, normalized_handles, handle_mapping, ws_master,
             matching_rows>>
codecVars == <<cell_text>>

----------------------------------------------------------------------------
(* Bounds of the model *)

\* longest gender list drawn as an input of update_gender_list / the unisex step
MaxLen == 3
\* number of chained calls of update_gender_list / the unisex step
MaxCalls == 2
\* longest size tag list drawn as an input of categorize_product
MaxTags == 3
\* number of data rows of an input worksheet
MaxRows == 4
\* longest text drawn as an input of normalize_handle
MaxHandle == 4
\* number of data rows of the reference worksheet
MaxRefs == 2
\* number of data rows of the master worksheet
MaxMaster == 2

----------------------------------------------------------------------------
(* Python values *)

None == [ty |-> "NoneType", v |-> <<>>]
PyStr(s) == [ty |-> "str", v |-> s]
PyInt(n) == [ty |-> "int", v |-> <<n>>]
PyList(xs) == [ty |-> "list", v |-> xs]

IsStr(x) == x.ty = "str"

Min(S) == CHOOSE x \in S : \A y \in S : x <= y
Max(S) == CHOOSE x \in S : \A y \in S : x >= y

\* all sequences over S of length at most n
SeqUpTo(S, n) == UNION {[1..k -> S] : k \in 0..n}

\* text constants (code points)
sMale == <<77, 97, 108, 101>>
sFemale == <<70, 101, 109, 97, 108, 101>>
sUnisex == <<85, 110, 105, 115, 101, 120>>
sLowerMale == <<109, 97, 108, 101>>
sLowerFemale == <<102, 101, 109, 97, 108, 101>>
sLowerUnisex == <<117, 110, 105, 115, 101, 120>>
sUpperFemale == <<70, 69, 77, 65, 76, 69>>
sKids == <<75, 105, 100, 115>>
sSize3640 == <<115, 105, 122, 101, 95, 51, 54, 95, 52, 48>>
sSize4146 == <<115, 105, 122, 101, 95, 52, 49, 95, 52, 54>>
sCapSize3640 == <<83, 105, 122, 101, 95, 51, 54, 95, 52, 48>>
sSize4750 == <<115, 105, 122, 101, 95, 52, 55, 95, 53, 48>>
sHappySocks == <<72, 97, 112, 112, 121, 32, 83, 111, 99, 107, 115>>
sCorgi == <<67, 111, 114, 103, 105>>
sH1 == <<72, 49>>
sH2 == <<72, 50>>

Male == PyStr(sMale)
Female == PyStr(sFemale)
Unisex == PyStr(sUnisex)

----------------------------------------------------------------------------
(* str methods *)

\* str.lower() on one code point: A-Z and the Latin-1 capitals
lower_char(c) ==
    IF c \in 65..90 \/ c \in 192..214 \/ c \in 216..222 THEN c + 32 ELSE c

\* str.lower()
lower(s) == [i \in DOMAIN s |-> lower_char(s[i])]

\* the characters str.strip() removes (Python's whitespace below U+0100)
IsSpace(c) == c \in {9, 10, 11, 12, 13, 28, 29, 30, 31, 32, 133, 160}

\* str.strip()
strip(s) ==
    LET keep == {i \in DOMAIN s : ~IsSpace(s[i])}
    IN  IF keep = {} THEN <<>> ELSE SubSeq(s, Min(keep), Max(keep))

\* str.split(sep) for a one-character separator
RECURSIVE split(_, _)
split(s, sep) ==
    LET at == {i \in DOMAIN s : s[i] = sep}
    IN  IF at = {} THEN <<s>>
        ELSE <<SubSeq(s, 1, Min(at) - 1)>>
             \o split(SubSeq(s, Min(at) + 1, Len(s)), sep)

\* `x in xs` for a Python list xs
In(x, xs) == \E i \in DOMAIN xs : xs[i] = x

\* [f(x) for x in xs if keep]
RECURSIVE DropEmpty(_)
DropEmpty(xs) ==
    IF xs = <<>> THEN <<>>
    ELSE (IF Head(xs) = <<>> THEN <<>> ELSE <<Head(xs)>>) \o DropEmpty(Tail(xs))

----------------------------------------------------------------------------
(* json.dumps and json.loads, as the scripts call them (default arguments).  *)
(* Modelled grammar: arrays, strings with their escapes, integers, null,     *)
(* true, false.  Objects, fractions, exponents, NaN, Infinity and surrogate  *)
(* pairs are outside it; no cell the model draws holds them.                 *)

True == [ty |-> "bool", v |-> <<1>>]
False == [ty |-> "bool", v |-> <<0>>]

\* str(n) for an int
RECURSIVE digits(_)
digits(n) ==
    IF n < 0 THEN <<45>> \o digits(0 - n)
    ELSE IF n < 10 THEN <<48 + n>>
    ELSE digits(n \div 10) \o <<48 + (n % 10)>>

hex_digit(d) == IF d < 10 THEN 48 + d ELSE 87 + d

\* variant of escape_char: the character written as it is
escape_char_plain(c) == <<c>>

\* json.encoder.ESCAPE_ASCII on one code point (ensure_ascii=True)
escape_char(c) ==
    IF c = 34 THEN <<92, 34>>
    ELSE IF c = 92 THEN <<92, 92>>
    ELSE IF c = 10 THEN <<92, 110>>
    ELSE IF c = 13 THEN <<92, 114>>
    ELSE IF c = 9 THEN <<92, 116>>
    ELSE IF c = 8 THEN <<92, 98>>
    ELSE IF c = 12 THEN <<92, 102>>
    ELSE IF c < 32 \/ c > 126
    THEN <<92, 117, hex_digit(c \div 4096), hex_digit((c \div 256) % 16),
           hex_digit((c \div 16) % 16), hex_digit(c % 16)>>
    ELSE <<c>>

RECURSIVE escape(_)
escape(s) == IF s = <<>> THEN <<>> ELSE escape_char(Head(s)) \o escape(Tail(s))

\* json.dumps(x)
RECURSIVE json_dumps(_)
RECURSIVE dumps_items(_)
dumps_items(xs) ==
    IF xs = <<>> THEN <<>>
    ELSE IF Len(xs) = 1 THEN json_dumps(xs[1])
    ELSE json_dumps(xs[1]) \o <<44, 32>> \o dumps_items(Tail(xs))

json_dumps(x) ==
    IF x.ty = "list" THEN <<91>> \o dumps_items(x.v) \o <<93>>
    ELSE IF x.ty = "str" THEN <<34>> \o escape(x.v) \o <<34>>
    ELSE IF x.ty = "int" THEN digits(x.v[1])
    ELSE IF x = True THEN <<116, 114, 117, 101>>
    ELSE IF x = False THEN <<102, 97, 108, 115, 101>>
    ELSE <<110, 117, 108, 108>>

\* a scan that failed (json.JSONDecodeError)
ScanFail == [ok |-> FALSE, val |-> None, next |-> 0]
Scanned(x, n) == [ok |-> TRUE, val |-> x, next |-> n]

IsDigit(c) == c \in 48..57
IsHex(c) == c \in 48..57 \/ c \in 65..70 \/ c \in 97..102
hex_value(c) == IF c \in 48..57 THEN c - 48 ELSE IF c \in 65..70 THEN c - 55 ELSE c - 87

\* json.decoder.WHITESPACE.match(s, i).end()
RECURSIVE skip_ws(_, _)
skip_ws(s, i) ==
    IF i <= Len(s) /\ s[i] \in {32, 9, 10, 13} THEN skip_ws(s, i + 1) ELSE i

\* json.decoder.BACKSLASH
unescape_char(c) ==
    IF c = 98 THEN 8 ELSE IF c = 102 THEN 12 ELSE IF c = 110 THEN 10
    ELSE IF c = 114 THEN 13 ELSE IF c = 116 THEN 9 ELSE c

\* json.decoder.scanstring(s, i, strict=True): i is the place after the quote
RECURSIVE scanstring(_, _, _)
scanstring(s, i, acc) ==
    IF i > Len(s) THEN ScanFail
    ELSE IF s[i] = 34 THEN Scanned(PyStr(acc), i + 1)
    ELSE IF s[i] < 32 THEN ScanFail
    ELSE IF s[i] # 92 THEN scanstring(s, i + 1, Append(acc, s[i]))
    ELSE IF i + 1 > Len(s) THEN ScanFail
    ELSE IF s[i + 1] \in {34, 92, 47, 98, 102, 110, 114, 116}
    THEN scanstring(s, i + 2, Append(acc, unescape_char(s[i + 1])))
    ELSE IF s[i + 1] = 117 /\ i + 5 <= Len(s)
            /\ \A k \in (i + 2)..(i + 5) : IsHex(s[k])
    THEN scanstring(s, i + 6,
             Append(acc, hex_value(s[i + 2]) * 4096 + hex_value(s[i + 3]) * 256
                         + hex_value(s[i + 4]) * 16 + hex_value(s[i + 5])))
    ELSE ScanFail

\* the place after the run of digits that starts at i
RECURSIVE digits_end(_, _)
digits_end(s, i) ==
    IF i <= Len(s) /\ IsDigit(s[i]) THEN digits_end(s, i + 1) ELSE i

\* int(text) for a run of digits
RECURSIVE int_of(_)
int_of(ds) ==
    IF ds = <<>> THEN 0 ELSE int_of(SubSeq(ds, 1, Len(ds) - 1)) * 10 + (ds[Len(ds)] - 48)

\* json.scanner.NUMBER_RE at i, integers only: -?(0|[1-9][0-9]*)
scan_number(s, i) ==
    LET neg == i <= Len(s) /\ s[i] = 45
        j == IF neg THEN i + 1 ELSE i
        e == IF j <= Len(s) /\ s[j] = 48 THEN j + 1 ELSE digits_end(s, j)
        n == int_of(SubSeq(s, j, e - 1))
    IN  IF e = j THEN ScanFail
        ELSE IF e <= Len(s) /\ s[e] \in {46, 101, 69} THEN ScanFail
        ELSE Scanned(PyInt(IF neg THEN 0 - n ELSE n), e)

starts_with(s, i, w) == i + Len(w) - 1 <= Len(s) /\ SubSeq(s, i, i + Len(w) - 1) = w

\* json.scanner.py_make_scanner: _scan_once and JSONArray
RECURSIVE scan_once(_, _)
RECURSIVE scan_array(_, _, _)
scan_array(s, i, acc) ==
    LET item == scan_once(s, i)
        j == skip_ws(s, item.next)
    IN  IF ~item.ok \/ j > Len(s) THEN ScanFail
        ELSE IF s[j] = 93 THEN Scanned(PyList(Append(acc, item.val)), j + 1)
        ELSE IF s[j] = 44
        THEN scan_array(s, skip_ws(s, j + 1), Append(acc, item.val))
        ELSE ScanFail

scan_once(s, i) ==
    IF i > Len(s) THEN ScanFail
    ELSE IF s[i] = 34 THEN scanstring(s, i + 1, <<>>)
    ELSE IF s[i] = 91
    THEN LET j == skip_ws(s, i + 1)
         IN  IF j <= Len(s) /\ s[j] = 93 THEN Scanned(PyList(<<>>), j + 1)
             ELSE scan_array(s, j, <<>>)
    ELSE IF starts_with(s, i, <<110, 117, 108, 108>>) THEN Scanned(None, i + 4)
    ELSE IF starts_with(s, i, <<116, 114, 117, 101>>) THEN Scanned(True, i + 4)
    ELSE IF starts_with(s, i, <<102, 97, 108, 115, 101>>) THEN Scanned(False, i + 5)
    ELSE scan_number(s, i)

\* json.loads(s) for a str s: ok is false where it raises json.JSONDecodeError
json_loads(s) ==
    LET r == scan_once(s, skip_ws(s, 1))
    IN  IF r.ok /\ skip_ws(s, r.next) = Len(s) + 1 THEN r ELSE ScanFail

----------------------------------------------------------------------------
(* The tag list codec *)

\* str(cell_value)
str(x) ==
    IF x.ty = "str" THEN x.v
    ELSE IF x.ty = "int" THEN digits(x.v[1])
    ELSE IF x = True THEN <<84, 114, 117, 101>>
    ELSE IF x = False THEN <<70, 97, 108, 115, 101>>
    ELSE <<78, 111, 110, 101>>

strip_each(xs) == [i \in DOMAIN xs |-> strip(xs[i])]
as_strs(xs) == [i \in DOMAIN xs |-> PyStr(xs[i])]

parse_comma_separated_tags(cell_value) ==
    IF cell_value = None \/ cell_value = PyStr(<<>>) THEN <<>>
    ELSE as_strs(DropEmpty(strip_each(split(str(cell_value), 44))))

\* variant of parse_json_list: no JSON decoding, the text of the cell is the
\* single tag
parse_json_list_raw(cell_value) ==
    IF cell_value = None \/ cell_value = PyStr(<<>>) THEN <<>>
    ELSE IF cell_value.ty = "list" THEN cell_value.v
    ELSE <<PyStr(str(cell_value))>>

parse_json_list(cell_value) ==
    IF cell_value = None \/ cell_value = PyStr(<<>>) THEN <<>>
    ELSE IF cell_value.ty = "list" THEN cell_value.v
    ELSE IF cell_value.ty # "str" THEN <<PyStr(str(cell_value))>>
    ELSE LET parsed == json_loads(cell_value.v)
         IN  IF ~parsed.ok THEN <<PyStr(str(cell_value))>>
             ELSE IF parsed.val.ty = "list" THEN parsed.val.v
             ELSE <<parsed.val>>

\* ", ".join(str(v) for v in values)
RECURSIVE join_comma(_)
join_comma(values) ==
    IF values = <<>> THEN <<>>
    ELSE IF Len(values) = 1 THEN str(values[1])
    ELSE str(values[1]) \o <<44, 32>> \o join_comma(Tail(values))

\* variant of format_json_list: the comma-separated form of the size column
format_json_list_join(values) == PyStr(join_comma(values))

format_json_list(values) == PyStr(json_dumps(PyList(values)))

----------------------------------------------------------------------------
(* The gender merge engine: 4-0-corgi-size_6_7.py *)

\* variant of get_opposite_gender: a bare else in place of the elif, so every
\* text other than "male" has the opposite Male
get_opposite_gender_else(g) ==
    LET gender_lower == lower(g.v)
    IN  IF gender_lower = sLowerMale THEN Female ELSE Male

get_opposite_gender(g) ==
    LET gender_lower == lower(g.v)
    IN  IF gender_lower = sLowerMale THEN Female
        ELSE IF gender_lower = sLowerFemale THEN Male
        ELSE None

\* variant of update_gender_list: the opposite is never replaced
update_gender_list_append(cur, new) ==
    IF In(new, cur) THEN [updated |-> cur, was_changed |-> FALSE]
    ELSE IF cur = <<>> THEN [updated |-> <<new>>, was_changed |-> TRUE]
    ELSE [updated |-> cur \o <<new>>, was_changed |-> TRUE]

\* variant of update_gender_list: the Unisex test placed before the opposite test
update_gender_list_unisex_first(cur, new) ==
    LET opposite == get_opposite_gender(new)
    IN  IF In(new, cur) THEN [updated |-> cur, was_changed |-> FALSE]
        ELSE IF In(Unisex, cur)
        THEN [updated |-> cur \o <<new>>, was_changed |-> TRUE]
        ELSE IF opposite # None /\ In(opposite, cur)
        THEN [updated |-> [i \in DOMAIN cur |->
                              IF cur[i] = opposite THEN new ELSE cur[i]],
              was_changed |-> TRUE]
        ELSE [updated |-> cur \o <<new>>, was_changed |-> TRUE]

\* variant of update_gender_list: no early return for a gender already present
update_gender_list_noearly(cur, new) ==
    LET opposite == get_opposite_gender(new)
    IN  IF opposite # None /\ In(opposite, cur)
        THEN [updated |-> [i \in DOMAIN cur |->
                              IF cur[i] = opposite THEN new ELSE cur[i]],
              was_changed |-> TRUE]
        ELSE [updated |-> cur \o <<new>>, was_changed |-> TRUE]

\* variant of update_gender_list: [new_gender] + current_genders in place of
\* current_genders + [new_gender]
update_gender_list_front(cur, new) ==
    LET opposite == get_opposite_gender(new)
    IN  IF In(new, cur) THEN [updated |-> cur, was_changed |-> FALSE]
        ELSE IF opposite # None /\ In(opposite, cur)
        THEN [updated |-> [i \in DOMAIN cur |->
                              IF cur[i] = opposite THEN new ELSE cur[i]],
              was_changed |-> TRUE]
        ELSE [updated |-> <<new>> \o cur, was_changed |-> TRUE]

\* variant of update_gender_list: the opposite is replaced before the test for
\* a gender already present
update_gender_list_opposite_first(cur, new) ==
    LET opposite == get_opposite_gender(new)
    IN  IF opposite # None /\ In(opposite, cur)
        THEN [updated |-> [i \in DOMAIN cur |->
                              IF cur[i] = opposite THEN new ELSE cur[i]],
              was_changed |-> TRUE]
        ELSE IF In(new, cur) THEN [updated |-> cur, was_changed |-> FALSE]
        ELSE [updated |-> cur \o <<new>>, was_changed |-> TRUE]

update_gender_list(cur, new) ==
    LET opposite == get_opposite_gender(new)
    IN  IF In(new, cur) THEN [updated |-> cur, was_changed |-> FALSE]
        ELSE IF opposite # None /\ In(opposite, cur)
        THEN [updated |-> [i \in DOMAIN cur |->
                              IF cur[i] = opposite THEN new ELSE cur[i]],
              was_changed |-> TRUE]
        ELSE IF In(Unisex, cur)
        THEN [updated |-> cur \o <<new>>, was_changed |-> TRUE]
        ELSE IF cur = <<>>
        THEN [updated |-> <<new>>, was_changed |-> TRUE]
        ELSE [updated |-> cur \o <<new>>, was_changed |-> TRUE]

----------------------------------------------------------------------------
(* The unisex completion rule: 5-0-unisex-adder.py *)

\* any(g.lower() == target for g in genders) raises AttributeError: an element
\* that is no str is reached before an element that matches
lower_raises(genders, target) ==
    \E i \in DOMAIN genders :
        /\ ~IsStr(genders[i])
        /\ \A j \in 1..(i - 1) :
              ~(IsStr(genders[j]) /\ lower(genders[j].v) = target)

\* any(g.lower() == target for g in genders), when it does not raise
any_lower(genders, target) ==
    \E i \in DOMAIN genders : IsStr(genders[i]) /\ lower(genders[i].v) = target

should_add_unisex_raises(genders) ==
    /\ Len(genders) >= 2
    /\ \/ lower_raises(genders, sLowerMale)
       \/ lower_raises(genders, sLowerFemale)
       \/ lower_raises(genders, sLowerUnisex)

\* variant of should_add_unisex: the result ignores has_unisex
should_add_unisex_any(genders) ==
    IF genders = <<>> \/ Len(genders) < 2 THEN FALSE
    ELSE any_lower(genders, sLowerMale) /\ any_lower(genders, sLowerFemale)

should_add_unisex(genders) ==
    IF genders = <<>> \/ Len(genders) < 2 THEN FALSE
    ELSE LET has_male == any_lower(genders, sLowerMale)
             has_female == any_lower(genders, sLowerFemale)
             has_unisex == any_lower(genders, sLowerUnisex)
         IN  has_male /\ has_female /\ ~has_unisex

\* the unisex step of add_unisex_tags on one decoded gender list
add_unisex_if_complete(genders) ==
    IF should_add_unisex(genders) THEN genders \o <<Unisex>> ELSE genders

----------------------------------------------------------------------------
(* The size classifier: 4-2-happy-socks-gender-splitter.py *)

\* variant of categorize_product: a product with neither size is filed as unisex
categorize_product_no_skip(tags) ==
    LET has_36_40 == In(PyStr(sSize3640), tags)
        has_41_46 == In(PyStr(sSize4146), tags)
    IN  IF has_36_40 /\ has_41_46
        THEN [category |-> "unisex", gender_list |-> <<Female, Male, Unisex>>]
        ELSE IF has_36_40
        THEN [category |-> "female_only", gender_list |-> <<Female>>]
        ELSE IF has_41_46
        THEN [category |-> "male_only", gender_list |-> <<Male>>]
        ELSE [category |-> "unisex", gender_list |-> <<Female, Male, Unisex>>]

\* variant of categorize_product: the single-size tests come before the test for both
categorize_product_elif(tags) ==
    LET has_36_40 == In(PyStr(sSize3640), tags)
        has_41_46 == In(PyStr(sSize4146), tags)
    IN  IF has_36_40
        THEN [category |-> "female_only", gender_list |-> <<Female>>]
        ELSE IF has_41_46
        THEN [category |-> "male_only", gender_list |-> <<Male>>]
        ELSE IF has_36_40 /\ has_41_46
        THEN [category |-> "unisex", gender_list |-> <<Female, Male, Unisex>>]
        ELSE [category |-> "None", gender_list |-> <<>>]

\* variant of categorize_product: the gender lists of the two single sizes swapped
categorize_product_swapped(tags) ==
    LET has_36_40 == In(PyStr(sSize3640), tags)
        has_41_46 == In(PyStr(sSize4146), tags)
    IN  IF has_36_40 /\ has_41_46
        THEN [category |-> "unisex", gender_list |-> <<Female, Male, Unisex>>]
        ELSE IF has_36_40
        THEN [category |-> "female_only", gender_list |-> <<Male>>]
        ELSE IF has_41_46
        THEN [category |-> "male_only", gender_list |-> <<Female>>]
        ELSE [category |-> "None", gender_list |-> <<>>]

\* category None is written "None"; the three buckets are the keys of wb_outputs
categorize_product(tags) ==
    LET has_36_40 == In(PyStr(sSize3640), tags)
        has_41_46 == In(PyStr(sSize4146), tags)
    IN  IF has_36_40 /\ has_41_46
        THEN [category |-> "unisex", gender_list |-> <<Female, Male, Unisex>>]
        ELSE IF has_36_40
        THEN [category |-> "female_only", gender_list |-> <<Female>>]
        ELSE IF has_41_46
        THEN [category |-> "male_only", gender_list |-> <<Male>>]
        ELSE [category |-> "None", gender_list |-> <<>>]

----------------------------------------------------------------------------
(* The handle normalizer: 2-0-matrixify-segmenter.py *)

\* `not x` for a cell value
Falsy(x) ==
    \/ x = None
    \/ x = False
    \/ x = PyInt(0)
    \/ (x.ty \in {"str", "list"} /\ x.v = <<>>)

\* U+2122 TRADE MARK SIGN, U+00AE REGISTERED SIGN, U+00A9 COPYRIGHT SIGN,
\* U+2120 SERVICE MARK
problematic_symbols == <<8482, 174, 169, 8480>>

\* s.replace(symbol, '') for one character
RECURSIVE remove_symbol(_, _)
remove_symbol(s, symbol) ==
    IF s = <<>> THEN <<>>
    ELSE (IF Head(s) = symbol THEN <<>> ELSE <<Head(s)>>)
         \o remove_symbol(Tail(s), symbol)

\* for symbol in symbols: s = s.replace(symbol, '')
RECURSIVE remove_symbols(_, _)
remove_symbols(s, symbols) ==
    IF symbols = <<>> THEN s
    ELSE remove_symbols(remove_symbol(s, Head(symbols)), Tail(symbols))

\* unicodedata.normalize('NFKD', c) for one code point.  The table holds the
\* decompositions of the Unicode Character Database for the characters listed;
\* ASCII, U+00A9 and U+00AE have none and decompose to themselves.
nfkd_char(c) ==
    IF c = 160 THEN <<32>>                  \* NO-BREAK SPACE -> SPACE
    ELSE IF c = 201 THEN <<69, 769>>        \* E WITH ACUTE -> E, COMBINING ACUTE
    ELSE IF c = 233 THEN <<101, 769>>       \* e with acute -> e, COMBINING ACUTE
    ELSE IF c = 8450 THEN <<67>>            \* DOUBLE-STRUCK CAPITAL C -> C
    ELSE IF c = 8480 THEN <<83, 77>>        \* SERVICE MARK -> SM
    ELSE IF c = 8482 THEN <<84, 77>>        \* TRADE MARK SIGN -> TM
    ELSE <<c>>

\* unicodedata.normalize('NFKD', s): no text of the model holds two combining
\* marks in a row, so the canonical reordering has nothing to reorder
RECURSIVE nfkd(_)
nfkd(s) == IF s = <<>> THEN <<>> ELSE nfkd_char(Head(s)) \o nfkd(Tail(s))

\* char.isascii() and char.isalnum()
IsAsciiAlnum(c) == c \in 48..57 \/ c \in 65..90 \/ c \in 97..122

\* the characters the filter loop keeps
RECURSIVE keep_alnum_hyphen(_)
keep_alnum_hyphen(s) ==
    IF s = <<>> THEN <<>>
    ELSE (IF IsAsciiAlnum(Head(s)) \/ Head(s) = 45 THEN <<Head(s)>> ELSE <<>>)
         \o keep_alnum_hyphen(Tail(s))

\* s.replace('--', '-'): the occurrences found from the left, not overlapping
RECURSIVE replace_double_hyphen(_)
replace_double_hyphen(s) ==
    IF Len(s) < 2 THEN s
    ELSE IF s[1] = 45 /\ s[2] = 45
    THEN <<45>> \o replace_double_hyphen(SubSeq(s, 3, Len(s)))
    ELSE <<s[1]>> \o replace_double_hyphen(Tail(s))

\* while '--' in s: s = s.replace('--', '-')
RECURSIVE collapse_hyphens(_)
collapse_hyphens(s) ==
    IF \E i \in 1..(Len(s) - 1) : s[i] = 45 /\ s[i + 1] = 45
    THEN collapse_hyphens(replace_double_hyphen(s))
    ELSE s

\* str.strip(chars)
strip_chars(s, chars) ==
    LET keep == {i \in DOMAIN s : s[i] \notin chars}
    IN  IF keep = {} THEN <<>> ELSE SubSeq(s, Min(keep), Max(keep))

\* normalize_handle(handle): the key as a text (code points)
normalize_handle(h) ==
    IF Falsy(h) THEN <<>>
    ELSE LET lowered == lower(str(h))
             removed == remove_symbols(lowered, problematic_symbols)
             decomposed == nfkd(removed)
             kept == keep_alnum_hyphen(decomposed)
             collapsed == collapse_hyphens(kept)
         IN  strip(strip_chars(collapsed, {45}))

----------------------------------------------------------------------------
(* Values the unused variables of a specification hold *)

PassIdle ==
    /\ ws_input = <<>>
    /\ ws_output = <<>>
    /\ seen_handles = <<>>
    /\ tracker_log = <<>>

PromptIdle == brand_name = None /\ size_label = None

MergeIdle ==
    /\ current_genders = <<>>
    /\ updated_genders = <<>>
    /\ was_changed = FALSE

ClassIdle ==
    /\ size_tags = <<>>
    /\ category = "None"
    /\ gender_list = <<>>

NormIdle == handle = None /\ normalized = <<>>

CodecIdle == cell_text = None

SegIdle ==
    /\ ws_reference = <<>>
    /\ normalized_handles = {}
    /\ handle_mapping = <<>>
    /\ ws_master = <<>>
    /\ matching_rows = <<>>

----------------------------------------------------------------------------
(* update_gender_list applied to drawn lists, each result fed to the next call *)

MergeAlphabet ==
    {Male, Female, Unisex, PyStr(sLowerMale), PyStr(sKids)}

InitMerge ==
    /\ script = "merge"
    /\ pc = "init"
    /\ gender = None
    /\ current_genders \in SeqUpTo(MergeAlphabet, MaxLen)
    /\ updated_genders = current_genders
    /\ was_changed = FALSE
    /\ stats = [calls |-> 0]
    /\ PassIdle /\ PromptIdle /\ ClassIdle
    /\ NormIdle /\ SegIdle
    /\ CodecIdle

MergeCall ==
    /\ script = "merge"
    /\ stats.calls < MaxCalls
    /\ \E new \in MergeAlphabet :
          LET r == update_gender_list(updated_genders, new)
          IN  /\ current_genders' = updated_genders
              /\ gender' = new
              /\ updated_genders' = r.updated
              /\ was_changed' = r.was_changed
    /\ pc' = "called"
    /\ stats' = [calls |-> stats.calls + 1]
    /\ UNCHANGED <<script, passVars, promptVars, classVars, normVars,
                   segVars,
                   codecVars>>

NextMerge == MergeCall

SpecMerge == InitMerge /\ [][NextMerge]_vars

----------------------------------------------------------------------------
(* The unisex step applied repeatedly to a drawn list *)

UnisexAlphabet ==
    {Male, Female, Unisex, PyStr(sLowerMale), PyStr(sUpperFemale),
     PyStr(sLowerUnisex)}

InitUnisex ==
    /\ script = "unisex"
    /\ pc = "init"
    /\ gender = None
    /\ current_genders \in SeqUpTo(UnisexAlphabet, MaxLen)
    /\ updated_genders = current_genders
    /\ was_changed = FALSE
    /\ stats = [calls |-> 0]
    /\ PassIdle /\ PromptIdle /\ ClassIdle
    /\ NormIdle /\ SegIdle
    /\ CodecIdle

UnisexCall ==
    /\ script = "unisex"
    /\ stats.calls < MaxCalls
    /\ current_genders' = updated_genders
    /\ updated_genders' = add_unisex_if_complete(updated_genders)
    /\ was_changed' = should_add_unisex(updated_genders)
    /\ pc' = "called"
    /\ stats' = [calls |-> stats.calls + 1]
    /\ UNCHANGED <<script, gender, passVars, promptVars, classVars, normVars,
                   segVars,
                   codecVars>>

NextUnisex == UnisexCall

SpecUnisex == InitUnisex /\ [][NextUnisex]_vars

----------------------------------------------------------------------------
(* categorize_product applied to a drawn tag list *)

TagAlphabet ==
    {PyStr(sSize3640), PyStr(sSize4146), PyStr(sCapSize3640), PyStr(sSize4750)}

InitClassify ==
    /\ script = "classify"
    /\ pc = "init"
    /\ gender = None
    /\ size_tags \in SeqUpTo(TagAlphabet, MaxTags)
    /\ category = "None"
    /\ gender_list = <<>>
    /\ stats = [calls |-> 0]
    /\ PassIdle /\ PromptIdle /\ MergeIdle
    /\ NormIdle /\ SegIdle
    /\ CodecIdle

ClassifyCall ==
    /\ script = "classify"
    /\ pc = "init"
    /\ LET r == categorize_product(size_tags)
       IN  /\ category' = r.category
           /\ gender_list' = r.gender_list
    /\ pc' = "called"
    /\ stats' = [calls |-> stats.calls + 1]
    /\ UNCHANGED <<script, gender, size_tags, passVars, promptVars, mergeVars,
                   normVars, segVars,
                   codecVars>>

NextClassify == ClassifyCall

SpecClassify == InitClassify /\ [][NextClassify]_vars

----------------------------------------------------------------------------
(* normalize_handle applied to a drawn text, each result fed to the next call *)

\* a, A, hyphen, space, e with acute, TRADE MARK SIGN, DOUBLE-STRUCK CAPITAL C
NormAlphabet == {97, 65, 45, 32, 233, 8482, 8450}

InitNormalize ==
    /\ script = "normalize"
    /\ pc = "init"
    /\ gender = None
    /\ handle \in {None} \cup {PyStr(s) : s \in SeqUpTo(NormAlphabet, MaxHandle)}
    /\ normalized = <<>>
    /\ stats = [calls |-> 0]
    /\ PassIdle /\ PromptIdle /\ MergeIdle /\ ClassIdle /\ SegIdle
    /\ CodecIdle

NormalizeCall ==
    /\ script = "normalize"
    /\ stats.calls < MaxCalls
    /\ LET arg == IF pc = "init" THEN handle ELSE PyStr(normalized)
       IN  /\ handle' = arg
           /\ normalized' = normalize_handle(arg)
    /\ pc' = "called"
    /\ stats' = [calls |-> stats.calls + 1]
    /\ UNCHANGED <<script, gender, passVars, promptVars, mergeVars, classVars,
                   segVars,
                   codecVars>>

NextNormalize == NormalizeCall

SpecNormalize == InitNormalize /\ [][NextNormalize]_vars

----------------------------------------------------------------------------
(* format_json_list applied to a drawn list, parse_json_list to its result *)

\* Male, a comma inside a tag, a quote, a backslash, e with acute, a line
\* feed, the empty tag, a closing bracket
CodecTags ==
    {Male, PyStr(<<97, 44, 98>>), PyStr(<<34>>), PyStr(<<92>>), PyStr(<<233>>),
     PyStr(<<10>>), PyStr(<<>>), PyStr(<<93>>)}

InitCodec ==
    /\ script = "codec"
    /\ pc = "init"
    /\ gender = None
    /\ current_genders \in SeqUpTo(CodecTags, MaxLen)
    /\ updated_genders = <<>>
    /\ was_changed = FALSE
    /\ cell_text = None
    /\ stats = [calls |-> 0]
    /\ PassIdle /\ PromptIdle /\ ClassIdle
    /\ NormIdle /\ SegIdle

\* target_cell.value = format_json_list(updated_genders)
EncodeCall ==
    /\ script = "codec"
    /\ pc = "init"
    /\ cell_text' = format_json_list(current_genders)
    /\ pc' = "encoded"
    /\ stats' = [calls |-> stats.calls + 1]
    /\ UNCHANGED <<script, gender, passVars, promptVars, mergeVars, classVars,
                   normVars, segVars>>

\* current_genders = parse_json_list(gender_cell.value) on the cell written
DecodeCall ==
    /\ script = "codec"
    /\ pc = "encoded"
    /\ updated_genders' = parse_json_list(cell_text)
    /\ pc' = "decoded"
    /\ stats' = [calls |-> stats.calls + 1]
    /\ UNCHANGED <<script, gender, current_genders, was_changed, cell_text,
                   passVars, promptVars, classVars, normVars, segVars>>

NextCodec == EncodeCall \/ DecodeCall

SpecCodec == InitCodec /\ [][NextCodec]_vars

----------------------------------------------------------------------------
(* The three passes.  A worksheet row is [handle, brand, size, gender]: the  *)
(* cells of columns B (HANDLE_COL), F (BRAND_COL), H (SIZE_COL) and CQ       *)
(* (GENDER_COL).  Each step reads the next data row of the input and runs    *)
(* one iteration of the script's loop; Save ends the pass.  Row k of         *)
(* ws_output[target] is worksheet row k + 1, so output_row is                *)
(* Len(ws_output[target]) + 2.                                               *)

H1 == PyStr(<<83, 111, 99, 107, 45, 65>>)              \* Sock-A
H2 == PyStr(<<83, 111, 99, 107, 45, 66>>)              \* Sock-B
HappySocks == PyStr(sHappySocks)
Corgi == PyStr(sCorgi)
Size67 == PyStr(<<54, 47, 55>>)                        \* 6/7

\* gender cells
cellMale == PyStr(<<91, 34, 77, 97, 108, 101, 34, 93>>)   \* ["Male"]
cellUnisex == PyStr(<<91, 34, 85, 110, 105, 115, 101, 120, 34, 93>>)  \* ["Unisex"]
\* ["Male", "Female"]
cellMaleFemale ==
    PyStr(<<91, 34, 77, 97, 108, 101, 34, 44, 32, 34, 70, 101, 109, 97, 108,
            101, 34, 93>>)
\* ["Female", "Unisex"]
cellFemaleUnisex ==
    PyStr(<<91, 34, 70, 101, 109, 97, 108, 101, 34, 44, 32, 34, 85, 110, 105,
            115, 101, 120, 34, 93>>)
\* [1, "Male"]
cellOneMale == PyStr(<<91, 49, 44, 32, 34, 77, 97, 108, 101, 34, 93>>)

\* size cells
cellSize3640 == PyStr(sSize3640)
cellSize4146 == PyStr(sSize4146)
\* size_36_40, size_41_46
cellSizeBoth == PyStr(sSize3640 \o <<44, 32>> \o sSize4146)
cellSize4750 == PyStr(sSize4750)
\* 6/7, 8/9
cellSize67 == PyStr(<<54, 47, 55, 44, 32, 56, 47, 57>>)
cellSize89 == PyStr(<<56, 47, 57>>)

Row(h, b, s, g) == [handle |-> h, brand |-> b, size |-> s, gender |-> g]

Blank(cell) == cell = None

\* target_cell.value = ... for every column of the row, the gender column overridden
CopyRow(r, gender_value) == [r EXCEPT !.gender = gender_value]

Inc(counters, name) == [counters EXCEPT ![name] = @ + 1]

Query(key, first) == [key |-> key, first |-> first]

\* variant of first_occurrence: a key leads only while the tracker is empty
first_occurrence_fresh(key, seen) == seen = {}

\* the leader tracker: `handle_value not in seen_handles` ...
first_occurrence(key, seen) == key \notin seen

\* variant of mark_seen: only the handle of the last row is remembered
mark_seen_last(key, seen) == {key}

\* ... and seen_handles.add(handle_value)
mark_seen(key, seen) == seen \cup {key}

----------------------------------------------------------------------------
(* 5-0-unisex-adder.py: add_unisex_tags *)

AdderRows ==
    {Row(h, HappySocks, cellSize3640, g) :
        h \in {H1, H2},
        g \in {None, cellMale, cellMaleFemale, cellOneMale}}

InitAdder ==
    /\ script = "adder"
    /\ pc = "loop"
    /\ gender = None
    /\ ws_input = <<>>
    /\ ws_output = [c \in {"output"} |-> <<>>]
    /\ seen_handles = [c \in {"output"} |-> {}]
    /\ tracker_log = [c \in {"output"} |-> <<>>]
    /\ stats = [rows_processed |-> 0, rows_with_unisex_added |-> 0,
                rows_unchanged |-> 0]
    /\ PromptIdle /\ MergeIdle /\ ClassIdle
    /\ NormIdle /\ SegIdle
    /\ CodecIdle

\* variant of adder_gender_value: the list is encoded whatever its length
adder_gender_value_encode(is_first_occurrence, upd) ==
    IF is_first_occurrence /\ upd # None THEN format_json_list(upd.v) ELSE None

\* the gender cell add_unisex_tags writes for a row
adder_gender_value(is_first_occurrence, upd) ==
    IF is_first_occurrence /\ upd # None
    THEN (IF upd.v # <<>> THEN format_json_list(upd.v) ELSE None)
    ELSE None

\* one iteration of the loop that runs to its end
AdderRow ==
    /\ script = "adder" /\ pc = "loop"
    /\ Len(ws_input) < MaxRows
    /\ \E r \in AdderRows :
          LET handle_value == r.handle
              is_first_occurrence ==
                  first_occurrence(handle_value, seen_handles["output"])
              cur == parse_json_list(r.gender)
              add == should_add_unisex(cur)
              upd == IF is_first_occurrence
                     THEN PyList(add_unisex_if_complete(cur)) ELSE None
          IN  /\ ~(is_first_occurrence /\ should_add_unisex_raises(cur))
              /\ ws_input' = Append(ws_input, r)
              /\ stats' =
                    LET s1 == Inc(stats, "rows_processed")
                    IN  IF ~is_first_occurrence THEN s1
                        ELSE IF add THEN Inc(s1, "rows_with_unisex_added")
                        ELSE Inc(s1, "rows_unchanged")
              /\ seen_handles' =
                    [seen_handles EXCEPT !["output"] =
                        IF is_first_occurrence
                        THEN mark_seen(handle_value, @) ELSE @]
              /\ tracker_log' =
                    [tracker_log EXCEPT !["output"] =
                        Append(@, Query(handle_value, is_first_occurrence))]
              /\ ws_output' =
                    [ws_output EXCEPT !["output"] =
                        Append(@, CopyRow(r,
                            adder_gender_value(is_first_occurrence, upd)))]
    /\ UNCHANGED <<script, pc, gender, promptVars, mergeVars, classVars, normVars,
                   segVars,
                   codecVars>>

\* an iteration in which should_add_unisex raises AttributeError (g.lower() on
\* an element that is no str): the exception leaves add_unisex_tags, nothing
\* is written or saved
AdderRowRaises ==
    /\ script = "adder" /\ pc = "loop"
    /\ Len(ws_input) < MaxRows
    /\ \E r \in AdderRows :
          LET handle_value == r.handle
              is_first_occurrence ==
                  first_occurrence(handle_value, seen_handles["output"])
              cur == parse_json_list(r.gender)
          IN  /\ is_first_occurrence /\ should_add_unisex_raises(cur)
              /\ ws_input' = Append(ws_input, r)
              /\ stats' = Inc(stats, "rows_processed")
              /\ tracker_log' =
                    [tracker_log EXCEPT !["output"] =
                        Append(@, Query(handle_value, is_first_occurrence))]
    /\ pc' = "raised"
    /\ UNCHANGED <<script, gender, ws_output, seen_handles, promptVars,
                   mergeVars, classVars, normVars,
                   segVars,
                   codecVars>>

----------------------------------------------------------------------------
(* 4-0-corgi-size_6_7.py: update_gender_tags *)

UpdaterRows ==
    {Row(h, Corgi, cellSize67, g) :
        h \in {H1, H2}, g \in {None, cellFemaleUnisex}}
    \cup {Row(H1, HappySocks, cellSize67, cellFemaleUnisex),
          Row(H1, Corgi, cellSize89, cellFemaleUnisex)}

InitUpdater ==
    /\ script = "updater"
    /\ pc = "loop"
    /\ brand_name = Corgi
    /\ size_label = Size67
    /\ gender \in {Male, Female}
    /\ ws_input = <<>>
    /\ ws_output = [c \in {"output"} |-> <<>>]
    /\ seen_handles = [c \in {"output"} |-> {}]
    /\ tracker_log = [c \in {"output"} |-> <<>>]
    /\ stats = [rows_processed |-> 0, rows_matched |-> 0, rows_updated |-> 0,
                rows_unchanged |-> 0]
    /\ MergeIdle /\ ClassIdle
    /\ NormIdle /\ SegIdle
    /\ CodecIdle

\* the filter of update_gender_tags
updater_matches(r, brand, label) ==
    r.brand = brand /\ In(label, parse_comma_separated_tags(r.size))

\* the gender cell update_gender_tags writes for a matched row
updater_gender_value(is_first_occurrence, upd) ==
    IF is_first_occurrence THEN format_json_list(upd) ELSE None

\* an iteration on a row the filter rejects
UpdaterSkip ==
    /\ script = "updater" /\ pc = "loop"
    /\ Len(ws_input) < MaxRows
    /\ \E r \in UpdaterRows :
          /\ ~updater_matches(r, brand_name, size_label)
          /\ ws_input' = Append(ws_input, r)
    /\ stats' = Inc(stats, "rows_processed")
    /\ UNCHANGED <<script, pc, gender, ws_output, seen_handles, tracker_log,
                   promptVars, mergeVars, classVars, normVars,
                   segVars,
                   codecVars>>

\* an iteration on a matched row
UpdaterRow ==
    /\ script = "updater" /\ pc = "loop"
    /\ Len(ws_input) < MaxRows
    /\ \E r \in UpdaterRows :
          LET handle_value == r.handle
              is_first_occurrence ==
                  first_occurrence(handle_value, seen_handles["output"])
              res == update_gender_list(parse_json_list(r.gender), gender)
          IN  /\ updater_matches(r, brand_name, size_label)
              /\ ws_input' = Append(ws_input, r)
              /\ stats' =
                    LET s1 == Inc(Inc(stats, "rows_processed"), "rows_matched")
                    IN  IF ~is_first_occurrence THEN s1
                        ELSE IF res.was_changed THEN Inc(s1, "rows_updated")
                        ELSE Inc(s1, "rows_unchanged")
              /\ seen_handles' =
                    [seen_handles EXCEPT !["output"] =
                        IF is_first_occurrence
                        THEN mark_seen(handle_value, @) ELSE @]
              /\ tracker_log' =
                    [tracker_log EXCEPT !["output"] =
                        Append(@, Query(handle_value, is_first_occurrence))]
              /\ ws_output' =
                    [ws_output EXCEPT !["output"] =
                        Append(@, CopyRow(r,
                            updater_gender_value(is_first_occurrence,
                                                 res.updated)))]
    /\ UNCHANGED <<script, pc, gender, promptVars, mergeVars, classVars, normVars,
                   segVars,
                   codecVars>>

----------------------------------------------------------------------------
(* 4-2-happy-socks-gender-splitter.py: split_happy_socks *)

Categories == {"female_only", "male_only", "unisex"}

SplitterRows ==
    {Row(h, HappySocks, s, cellUnisex) :
        h \in {H1, H2}, s \in {cellSize3640, cellSize4146, cellSizeBoth}}
    \cup {Row(H1, HappySocks, cellSize4750, cellUnisex),
          Row(H1, Corgi, cellSize3640, cellUnisex)}

InitSplitter ==
    /\ script = "splitter"
    /\ pc = "loop"
    /\ gender = None
    /\ ws_input = <<>>
    /\ ws_output = [c \in Categories |-> <<>>]
    /\ seen_handles = [c \in Categories |-> {}]
    /\ tracker_log = [c \in Categories |-> <<>>]
    /\ stats = [rows_processed |-> 0, happy_socks_found |-> 0,
                female_only |-> 0, male_only |-> 0, unisex |-> 0, skipped |-> 0]
    /\ PromptIdle /\ MergeIdle /\ ClassIdle
    /\ NormIdle /\ SegIdle
    /\ CodecIdle

\* variant of splitter_gender_value: no test of is_first_occurrence
splitter_gender_value_always(is_first_occurrence, genders) ==
    format_json_list(genders)

\* the gender cell split_happy_socks writes for a categorized row
splitter_gender_value(is_first_occurrence, genders) ==
    IF is_first_occurrence THEN format_json_list(genders) ELSE None

\* variant of category_seen: one tracker for the three outputs
category_seen_shared(seen, cat) == UNION {seen[c] : c \in DOMAIN seen}

\* seen_handles[category]
category_seen(seen, cat) == seen[cat]

\* an iteration on a row of another brand
SplitterOtherBrand ==
    /\ script = "splitter" /\ pc = "loop"
    /\ Len(ws_input) < MaxRows
    /\ \E r \in SplitterRows :
          /\ r.brand # HappySocks
          /\ ws_input' = Append(ws_input, r)
    /\ stats' = Inc(stats, "rows_processed")
    /\ UNCHANGED <<script, pc, gender, ws_output, seen_handles, tracker_log,
                   promptVars, mergeVars, classVars, normVars,
                   segVars,
                   codecVars>>

\* an iteration on a Happy Socks row with neither size
SplitterSkipped ==
    /\ script = "splitter" /\ pc = "loop"
    /\ Len(ws_input) < MaxRows
    /\ \E r \in SplitterRows :
          /\ r.brand = HappySocks
          /\ categorize_product(parse_comma_separated_tags(r.size)).category
                = "None"
          /\ ws_input' = Append(ws_input, r)
    /\ stats' = Inc(Inc(Inc(stats, "rows_processed"), "happy_socks_found"),
                    "skipped")
    /\ UNCHANGED <<script, pc, gender, ws_output, seen_handles, tracker_log,
                   promptVars, mergeVars, classVars, normVars,
                   segVars,
                   codecVars>>

\* an iteration on a Happy Socks row that is written to its category's workbook
SplitterRow ==
    /\ script = "splitter" /\ pc = "loop"
    /\ Len(ws_input) < MaxRows
    /\ \E r \in SplitterRows :
          LET handle_value == r.handle
              res == categorize_product(parse_comma_separated_tags(r.size))
              cat == res.category
              is_first_occurrence ==
                  first_occurrence(handle_value,
                                   category_seen(seen_handles, cat))
          IN  /\ r.brand = HappySocks
              /\ cat # "None"
              /\ ws_input' = Append(ws_input, r)
              /\ stats' =
                    LET s1 == Inc(Inc(stats, "rows_processed"),
                                  "happy_socks_found")
                    IN  IF is_first_occurrence THEN Inc(s1, cat) ELSE s1
              /\ seen_handles' =
                    [seen_handles EXCEPT ![cat] =
                        IF is_first_occurrence
                        THEN mark_seen(handle_value, @) ELSE @]
              /\ tracker_log' =
                    [tracker_log EXCEPT ![cat] =
                        Append(@, Query(handle_value, is_first_occurrence))]
              /\ ws_output' =
                    [ws_output EXCEPT ![cat] =
                        Append(@, CopyRow(r,
                            splitter_gender_value(is_first_occurrence,
                                                  res.gender_list)))]
    /\ UNCHANGED <<script, pc, gender, promptVars, mergeVars, classVars, normVars,
                   segVars,
                   codecVars>>

----------------------------------------------------------------------------
(* The passes together *)

\* the end of the input: wb_output.save(output_file) / wb.save(...)
Save ==
    /\ script \in {"adder", "updater", "splitter"}
    /\ pc = "loop"
    /\ pc' = "saved"
    /\ UNCHANGED <<script, gender, stats, passVars, promptVars, mergeVars,
                   classVars, normVars,
                   segVars,
                   codecVars>>

Init == InitAdder \/ InitUpdater \/ InitSplitter

Next ==
    \/ AdderRow
    \/ AdderRowRaises
    \/ UpdaterSkip
    \/ UpdaterRow
    \/ SplitterOtherBrand
    \/ SplitterSkipped
    \/ SplitterRow
    \/ Save

Spec == Init /\ [][Next]_vars

----------------------------------------------------------------------------
(* 5-0-unisex-adder.py run a second time, on the file its first run saved.  *)
(* RerunStart is the start of the second run up to its loop: the rows of    *)
(* the saved output are the input, the output workbook, the tracker and the *)
(* counters are new.  RerunRow is one iteration of the loop of lines        *)
(* 156-204 on the next row of that input.                                   *)

RerunStart ==
    /\ script = "adder" /\ pc = "saved"
    /\ pc' = "rerun"
    /\ ws_input' = ws_output["output"]
    /\ ws_output' = [c \in {"output"} |-> <<>>]
    /\ seen_handles' = [c \in {"output"} |-> {}]
    /\ tracker_log' = [c \in {"output"} |-> <<>>]
    /\ stats' = [rows_processed |-> 0, rows_with_unisex_added |-> 0,
                 rows_unchanged |-> 0]
    /\ UNCHANGED <<script, gender, promptVars, mergeVars, classVars, normVars,
                   segVars,
                   codecVars>>

\* one iteration of the second run: it ends in "rerun_raised" when
\* should_add_unisex raises
RerunRow ==
    /\ script = "adder" /\ pc = "rerun"
    /\ Len(ws_output["output"]) < Len(ws_input)
    /\ LET r == ws_input[Len(ws_output["output"]) + 1]
           handle_value == r.handle
           is_first_occurrence ==
               first_occurrence(handle_value, seen_handles["output"])
           cur == parse_json_list(r.gender)
           raises == is_first_occurrence /\ should_add_unisex_raises(cur)
           add == should_add_unisex(cur)
           upd == IF is_first_occurrence
                  THEN PyList(add_unisex_if_complete(cur)) ELSE None
       IN  /\ pc' = IF raises THEN "rerun_raised" ELSE pc
           /\ stats' =
                 LET s1 == Inc(stats, "rows_processed")
                 IN  IF raises \/ ~is_first_occurrence THEN s1
                     ELSE IF add THEN Inc(s1, "rows_with_unisex_added")
                     ELSE Inc(s1, "rows_unchanged")
           /\ seen_handles' =
                 [seen_handles EXCEPT !["output"] =
                     IF is_first_occurrence /\ ~raises
                     THEN mark_seen(handle_value, @) ELSE @]
           /\ tracker_log' =
                 [tracker_log EXCEPT !["output"] =
                     Append(@, Query(handle_value, is_first_occurrence))]
           /\ ws_output' =
                 IF raises THEN ws_output
                 ELSE [ws_output EXCEPT !["output"] =
                          Append(@, CopyRow(r,
                              adder_gender_value(is_first_occurrence, upd)))]
    /\ UNCHANGED <<script, gender, ws_input, promptVars, mergeVars, classVars,
                   normVars,
                   segVars,
                   codecVars>>

\* the end of the input of the second run: wb_output.save(output_file)
RerunSave ==
    /\ script = "adder" /\ pc = "rerun"
    /\ Len(ws_output["output"]) = Len(ws_input)
    /\ pc' = "resaved"
    /\ UNCHANGED <<script, gender, stats, passVars, promptVars, mergeVars,
                   classVars, normVars,
                   segVars,
                   codecVars>>

NextRerun ==
    \/ AdderRow
    \/ AdderRowRaises
    \/ Save
    \/ RerunStart
    \/ RerunRow
    \/ RerunSave

SpecRerun == InitAdder /\ [][NextRerun]_vars

----------------------------------------------------------------------------
(* 2-0-matrixify-segmenter.py: extract_handles_from_reference, then         *)
(* extract_matching_rows, then write_output_file, as main runs them.  A     *)
(* reference row is its column B cell; a master row is [handle, title]: the *)
(* cell of column B and one other cell.                                     *)

sSockATm == <<83, 111, 99, 107, 45, 65, 8482>>         \* Sock-A(TM)
sUpperSockA == <<83, 79, 67, 75, 45, 65>>              \* SOCK-A
sLowerSockA == <<115, 111, 99, 107, 45, 97>>           \* sock-a
sSockBPadded == <<83, 111, 99, 107, 45, 66, 32>>       \* Sock-B and a space
sTm == <<8482>>                                        \* the trade mark sign alone
sSpace == <<32>>

Title1 == PyStr(<<84, 49>>)
Title2 == PyStr(<<84, 50>>)

RefCells ==
    {None, PyStr(sSockATm), PyStr(sUpperSockA), PyStr(sSockBPadded),
     PyStr(sTm), PyStr(sSpace)}

MasterRow(h, t) == [handle |-> h, title |-> t]

MasterRows ==
    {MasterRow(None, Title1), MasterRow(PyStr(sSpace), Title1),
     MasterRow(PyStr(sLowerSockA), Title1), MasterRow(PyStr(sLowerSockA), Title2),
     MasterRow(H2, Title2)}

\* handle_str = str(handle_value).strip()
handle_str(handle_value) == strip(str(handle_value))

\* one iteration of the loop of extract_handles_from_reference: the set and
\* the mapping after it
reference_add(handles, mapping, handle_value) ==
    IF handle_value # None /\ handle_str(handle_value) # <<>>
    THEN LET key == normalize_handle(PyStr(handle_str(handle_value)))
         IN  [handles |-> handles \cup {key},
              mapping |-> [k \in DOMAIN mapping \cup {key} |->
                              IF k = key THEN handle_str(handle_value)
                              ELSE mapping[k]]]
    ELSE [handles |-> handles, mapping |-> mapping]

\* the test of extract_matching_rows on one master row
master_matches(r, handles) ==
    /\ r.handle # None
    /\ normalize_handle(PyStr(handle_str(r.handle))) \in handles

\* variant of row_data: column B keeps the master's text
row_data_master_handle(r, mapping) == r

\* row_data of a matching row: the cells of the row, column B replaced by
\* handle_mapping.get(normalized_handle, handle_str)
row_data(r, mapping) ==
    LET key == normalize_handle(PyStr(handle_str(r.handle)))
        original_handle ==
            IF key \in DOMAIN mapping THEN mapping[key] ELSE handle_str(r.handle)
    IN  [r EXCEPT !.handle = PyStr(original_handle)]

InitSegment ==
    /\ script = "segmenter"
    /\ pc = "reference"
    /\ gender = None
    /\ ws_reference = <<>>
    /\ normalized_handles = {}
    /\ handle_mapping = <<>>
    /\ ws_master = <<>>
    /\ matching_rows = <<>>
    /\ stats = [total_rows_processed |-> 0]
    /\ PassIdle /\ PromptIdle /\ MergeIdle /\ ClassIdle /\ NormIdle
    /\ CodecIdle

\* one iteration of the loop of extract_handles_from_reference
ReferenceRow ==
    /\ script = "segmenter" /\ pc = "reference"
    /\ Len(ws_reference) < MaxRefs
    /\ \E handle_value \in RefCells :
          LET res == reference_add(normalized_handles, handle_mapping,
                                   handle_value)
          IN  /\ ws_reference' = Append(ws_reference, handle_value)
              /\ normalized_handles' = res.handles
              /\ handle_mapping' = res.mapping
    /\ UNCHANGED <<script, pc, gender, stats, ws_master, matching_rows,
                   passVars, promptVars, mergeVars, classVars, normVars,
                   codecVars>>

\* the end of the reference worksheet: main stops when it gave no handle
ReferenceEnd ==
    /\ script = "segmenter" /\ pc = "reference"
    /\ pc' = IF normalized_handles = {} THEN "exit" ELSE "master"
    /\ UNCHANGED <<script, gender, stats, segVars, passVars, promptVars,
                   mergeVars, classVars, normVars,
                   codecVars>>

\* one iteration of the loop of extract_matching_rows
MasterRowStep ==
    /\ script = "segmenter" /\ pc = "master"
    /\ Len(ws_master) < MaxMaster
    /\ \E r \in MasterRows :
          /\ ws_master' = Append(ws_master, r)
          /\ matching_rows' =
                IF master_matches(r, normalized_handles)
                THEN Append(matching_rows, row_data(r, handle_mapping))
                ELSE matching_rows
    /\ stats' = Inc(stats, "total_rows_processed")
    /\ UNCHANGED <<script, pc, gender, ws_reference, normalized_handles,
                   handle_mapping, passVars, promptVars, mergeVars, classVars,
                   normVars,
                   codecVars>>

\* the end of the master worksheet: main stops when no row matched, and
\* otherwise write_output_file writes the header and matching_rows
MasterEnd ==
    /\ script = "segmenter" /\ pc = "master"
    /\ pc' = IF matching_rows = <<>> THEN "exit" ELSE "saved"
    /\ UNCHANGED <<script, gender, stats, segVars, passVars, promptVars,
                   mergeVars, classVars, normVars,
                   codecVars>>

NextSegment == ReferenceRow \/ ReferenceEnd \/ MasterRowStep \/ MasterEnd

SpecSegment == InitSegment /\ [][NextSegment]_vars

----------------------------------------------------------------------------
(* Properties of update_gender_list, under SpecMerge.  In a state with       *)
(* pc = "called" the variables hold one call: update_gender_list(           *)
(* current_genders, gender) = (updated_genders, was_changed).               *)

MergeCalled == script = "merge" /\ pc = "called"

\* the opposite of the rule table: Male <-> Female, nothing else has one
OppositeOf(g) == IF g = Male THEN Female ELSE IF g = Female THEN Male ELSE None

\* C1: rule 2.  When incoming is "Male" or "Female", is not in current and its
\* opposite is, the result has changed = true and the same length, every entry
\* equal to the opposite is replaced by incoming at its position and every other
\* entry (a "Unisex" too) is kept; the rule wins over the Unisex-append rule.
C1_ReplaceOpposite ==
    (/\ MergeCalled
     /\ gender \in {Male, Female}
     /\ ~In(gender, current_genders)
     /\ In(OppositeOf(gender), current_genders))
    => /\ was_changed = TRUE
       /\ Len(updated_genders) = Len(current_genders)
       /\ \A i \in DOMAIN current_genders :
             updated_genders[i] =
                 IF current_genders[i] = OppositeOf(gender)
                 THEN gender ELSE current_genders[i]

\* merge(["Female","Unisex"], "Male") = (["Male","Unisex"], true)
C1_Witness ==
    /\ MergeCalled
    /\ current_genders = <<Female, Unisex>>
    /\ gender = Male
    /\ updated_genders = <<Male, Unisex>>
    /\ was_changed = TRUE

\* C2: rule 1.  When incoming is already an element of current (exact text), the
\* result is the same list in the same order and changed = false, whatever else
\* the list holds.
C2_AlreadyPresent ==
    (MergeCalled /\ In(gender, current_genders))
    => (updated_genders = current_genders /\ was_changed = FALSE)

\* incoming present twice, beside its opposite
C2_Witness ==
    /\ MergeCalled
    /\ gender = Male
    /\ current_genders = <<Male, Female, Male>>
    /\ updated_genders = <<Male, Female, Male>>
    /\ was_changed = FALSE

\* C3: rules 3 and 4.  When neither incoming nor its opposite (as
\* get_opposite_gender gives it) is in current, the result has changed = true
\* and is current with incoming appended as the last element; with current
\* empty it is the singleton [incoming].
C3_Append ==
    (/\ MergeCalled
     /\ ~In(gender, current_genders)
     /\ ~In(get_opposite_gender(gender), current_genders))
    => /\ was_changed = TRUE
       /\ updated_genders = current_genders \o <<gender>>
       /\ (current_genders = <<>> => updated_genders = <<gender>>)

\* merge(["Unisex"], "Male") = (["Unisex","Male"], true)
C3_Witness ==
    /\ MergeCalled
    /\ current_genders = <<Unisex>>
    /\ gender = Male
    /\ updated_genders = <<Unisex, Male>>
    /\ was_changed = TRUE

\* C4 as stated: every incoming other than exactly "Male" or "Female" ("male"
\* included) that is not in current is appended, nothing replaced, changed = true.
C4_UnknownAppends ==
    (/\ MergeCalled
     /\ gender \notin {Male, Female}
     /\ ~In(gender, current_genders))
    => /\ was_changed = TRUE
       /\ updated_genders = current_genders \o <<gender>>

\* C4, amended: every incoming whose lower-cased text is neither "male" nor
\* "female" and that is not in current is appended at the end, no existing
\* entry replaced or removed, changed = true.
C4_UnknownAppendsAmended ==
    (/\ MergeCalled
     /\ lower(gender.v) \notin {sLowerMale, sLowerFemale}
     /\ ~In(gender, current_genders))
    => /\ was_changed = TRUE
       /\ updated_genders = current_genders \o <<gender>>

\* "Kids" merged into a list that holds both genders
C4_Witness ==
    /\ MergeCalled
    /\ gender = PyStr(sKids)
    /\ current_genders = <<Male, Female>>
    /\ updated_genders = <<Male, Female, PyStr(sKids)>>
    /\ was_changed = TRUE

----------------------------------------------------------------------------
(* Properties of the unisex step, under SpecUnisex.  In a state with        *)
(* pc = "called" updated_genders is the step applied to current_genders,    *)
(* and from the second call on current_genders is the previous result.      *)

\* some entry of xs is the text t in some casing
HasIgnoringCase(xs, t) == \E i \in DOMAIN xs : lower(xs[i].v) = t

\* number of entries of xs that are "Unisex" in some casing
RECURSIVE CountUnisex(_)
CountUnisex(xs) ==
    IF xs = <<>> THEN 0
    ELSE (IF lower(Head(xs).v) = sLowerUnisex THEN 1 ELSE 0) + CountUnisex(Tail(xs))

\* C5: the unisex step returns L + ["Unisex"] exactly when L holds Male and
\* Female and no Unisex (each in any casing) and L unchanged otherwise; applied
\* to its own result it changes nothing, so it never adds a second Unisex and
\* never reorders or removes an entry.
C5_UnisexCompletion ==
    (script = "unisex" /\ pc = "called")
    => /\ updated_genders =
             IF /\ HasIgnoringCase(current_genders, sLowerMale)
                /\ HasIgnoringCase(current_genders, sLowerFemale)
                /\ ~HasIgnoringCase(current_genders, sLowerUnisex)
             THEN current_genders \o <<Unisex>>
             ELSE current_genders
       /\ (stats.calls >= 2 => updated_genders = current_genders)
       /\ CountUnisex(updated_genders) <= Max({1, CountUnisex(current_genders)})
       /\ SubSeq(updated_genders, 1, Len(current_genders)) = current_genders

\* the second application to ["Male","Female"]: still ["Male","Female","Unisex"]
C5_Witness ==
    /\ script = "unisex"
    /\ pc = "called"
    /\ stats.calls = 2
    /\ current_genders = <<Male, Female, Unisex>>
    /\ updated_genders = <<Male, Female, Unisex>>

----------------------------------------------------------------------------
(* Properties of categorize_product, under SpecClassify *)

\* C10: the result is (unisex, [Female, Male, Unisex]) iff both size markers are
\* members, (female_only, [Female]) iff only size_36_40 is, (male_only, [Male])
\* iff only size_41_46 is and (none, []) iff neither is: the four cases exclude
\* each other and cover every list, and nothing but the membership of the two
\* markers (not order, multiplicity or any other tag) decides the result.
C10_Classifier ==
    (script = "classify" /\ pc = "called")
    => LET has36 == \E i \in DOMAIN size_tags : size_tags[i] = PyStr(sSize3640)
           has41 == \E i \in DOMAIN size_tags : size_tags[i] = PyStr(sSize4146)
           unisex == category = "unisex" /\ gender_list = <<Female, Male, Unisex>>
           female == category = "female_only" /\ gender_list = <<Female>>
           male == category = "male_only" /\ gender_list = <<Male>>
           none == category = "None" /\ gender_list = <<>>
       IN  /\ unisex <=> (has36 /\ has41)
           /\ female <=> (has36 /\ ~has41)
           /\ male <=> (~has36 /\ has41)
           /\ none <=> (~has36 /\ ~has41)
           /\ Cardinality({k \in 1..4 : <<unisex, female, male, none>>[k]}) = 1

\* both markers, size_41_46 first, with another tag between them
C10_Witness ==
    /\ script = "classify"
    /\ pc = "called"
    /\ size_tags = <<PyStr(sSize4146), PyStr(sSize4750), PyStr(sSize3640)>>
    /\ category = "unisex"
    /\ gender_list = <<Female, Male, Unisex>>

----------------------------------------------------------------------------
(* Properties of the three passes, under Spec.  A state holds the input     *)
(* rows read so far and what the pass has written for them, so an invariant *)
(* holds after every prefix of a pass.                                      *)

Targets == DOMAIN ws_output

\* the handles that appear in an output
HandlesOf(t) == {ws_output[t][k].handle : k \in DOMAIN ws_output[t]}

\* the rows of a handle in an output, and those that carry a gender cell
RowsOf(t, h) == {k \in DOMAIN ws_output[t] : ws_output[t][k].handle = h}
Carriers(t, h) == {k \in RowsOf(t, h) : ~Blank(ws_output[t][k].gender)}

\* C6: in every output of the gender updater, the splitter (each of its three
\* outputs) and the unisex adder, after every prefix of the pass, at most one
\* row of a handle carries a non-blank gender cell; every other row of the
\* handle has a blank one, whatever the source row held.
C6_RowGroupInvariant ==
    \A t \in Targets : \A h \in HandlesOf(t) : Cardinality(Carriers(t, h)) <= 1

\* three splitter rows of one handle in one category, each with a gender value
\* in the source: only the first is written with a gender cell
C6_Witness ==
    /\ script = "splitter"
    /\ Len(ws_output["unisex"]) = 3
    /\ RowsOf("unisex", H1) = {1, 2, 3}
    /\ \A k \in 1..3 : ~Blank(ws_input[k].gender)
    /\ Carriers("unisex", H1) = {1}

Keys(t) == [i \in DOMAIN tracker_log[t] |-> tracker_log[t][i].key]
Answers(t) == [i \in DOMAIN tracker_log[t] |-> tracker_log[t][i].first]

\* every answer of every tracker is true exactly at the first occurrence of its key
FirstSightOnly ==
    \A t \in DOMAIN tracker_log : \A i \in DOMAIN tracker_log[t] :
        Answers(t)[i] <=> (\A j \in 1..(i - 1) : Keys(t)[j] # Keys(t)[i])

\* a step never removes a key from a tracker's set
SeenOnlyGrows ==
    \A t \in DOMAIN seen_handles : seen_handles[t] \subseteq seen_handles'[t]

\* C8: within one pass and one tracker, the leadership test is true for a key
\* exactly at its first occurrence and false at every later one, whatever other
\* keys come between, and the set of seen keys only grows.
C8_LeaderTracker == []FirstSightOnly /\ [][SeenOnlyGrows]_vars

\* a second handle between two occurrences of the first
C8_Witness ==
    /\ script = "updater"
    /\ Keys("output") = <<H1, H2, H1, H2>>
    /\ Answers("output") = <<TRUE, TRUE, FALSE, FALSE>>
    /\ seen_handles["output"] = {H1, H2}

\* C9 as stated: on the key sequence [H1,H1,H2,H1] one fresh tracker answers
\* [true, false, false, false].
C9_Sequence ==
    \A t \in DOMAIN tracker_log : \A a, b \in {H1, H2} :
        (a # b /\ Keys(t) = <<a, a, b, a>>)
        => Answers(t) = <<TRUE, FALSE, FALSE, FALSE>>

\* C9, amended: on the key sequence [H1,H1,H2,H1] one fresh tracker answers
\* [true, false, true, false]: H2 leads at its own first occurrence.
C9_SequenceAmended ==
    \A t \in DOMAIN tracker_log : \A a, b \in {H1, H2} :
        (a # b /\ Keys(t) = <<a, a, b, a>>)
        => Answers(t) = <<TRUE, FALSE, TRUE, FALSE>>

\* the adder has read four rows with the handles H1, H1, H2, H1
C9_Witness ==
    /\ script = "adder"
    /\ Keys("output") = <<H1, H1, H2, H1>>
    /\ Answers("output") = <<TRUE, FALSE, TRUE, FALSE>>

----------------------------------------------------------------------------
(* Properties of normalize_handle, under SpecNormalize.  In a state with     *)
(* pc = "called" normalized = normalize_handle(handle), and from the second  *)
(* call on handle is the text the previous call returned.                    *)

NormalizeCalled == script = "normalize" /\ pc = "called"

\* C11: the normalizer is idempotent: for every input text x (accented
\* letters, symbols and compatibility characters included)
\* normalize_handle(normalize_handle(x)) = normalize_handle(x).
C11_Idempotent ==
    (NormalizeCalled /\ stats.calls >= 2) => normalized = handle.v

\* C12: the key is made only of a-z, 0-9 and hyphens, holds no two hyphens
\* in a row and no hyphen at either end, and is empty for a null or empty
\* input; no uppercase letter appears in it.
C12_OutputForm ==
    NormalizeCalled
    => /\ \A i \in DOMAIN normalized :
             normalized[i] \in (97..122) \cup (48..57) \cup {45}
       /\ \A i \in 1..(Len(normalized) - 1) :
             ~(normalized[i] = 45 /\ normalized[i + 1] = 45)
       /\ normalized # <<>> =>
             (normalized[1] # 45 /\ normalized[Len(normalized)] # 45)
       /\ (handle = None \/ handle = PyStr(<<>>)) => normalized = <<>>

----------------------------------------------------------------------------
(* Properties of the segmenter, under SpecSegment.  A state holds the        *)
(* reference cells and the master rows read so far, the match set and the   *)
(* mapping built from the former and the rows extracted from the latter.    *)

\* a cell the loops read a handle from, the text they read and its key
HasHandle(c) == c # None /\ handle_str(c) # <<>>
TextOf(c) == handle_str(c)
KeyOf(c) == normalize_handle(PyStr(handle_str(c)))

\* the reference rows whose handle has a key
RefRowsOfKey(key) ==
    {i \in DOMAIN ws_reference :
        HasHandle(ws_reference[i]) /\ KeyOf(ws_reference[i]) = key}

\* a master row whose key is the key of some reference handle
Joined(r) == r.handle # None /\ RefRowsOfKey(KeyOf(r.handle)) # {}

C14_FirstOccurrenceWins ==
    script = "segmenter"
    => LET selected == SelectSeq(ws_master, Joined)
       IN  \A j \in DOMAIN matching_rows :
              LET first == Min(RefRowsOfKey(KeyOf(selected[j].handle)))
              IN  matching_rows[j].handle = PyStr(TextOf(ws_reference[first]))

\* the step reads a master row whose handle cell is null, empty or blank, or
\* whose handle has the empty key
ReadsEmptyKeyRow ==
    /\ Len(ws_master') = Len(ws_master) + 1
    /\ LET r == ws_master'[Len(ws_master')]
       IN  r.handle = None \/ KeyOf(r.handle) = <<>>

\* the step reads a reference cell that is null, empty or blank
ReadsEmptyRefCell ==
    /\ Len(ws_reference') = Len(ws_reference) + 1
    /\ ~HasHandle(ws_reference'[Len(ws_reference')])

\* C15: a master row whose handle cell is null, empty or blank, or whose
\* handle normalizes to the empty key, is never selected, whatever the
\* reference file holds (handles made only of symbols included); a null or
\* empty reference cell adds no key to the match set.
C15_NullHandleNoMatch ==
    [][/\ ReadsEmptyKeyRow => matching_rows' = matching_rows
       /\ ReadsEmptyRefCell => normalized_handles' = normalized_handles]_vars

----------------------------------------------------------------------------
(* The gender cell of the rows the three passes write, under Spec *)

\* the list a pass computes for a source row
ComputedGenders(r) ==
    IF script = "adder" THEN add_unisex_if_complete(parse_json_list(r.gender))
    ELSE IF script = "updater"
    THEN update_gender_list(parse_json_list(r.gender), gender).updated
    ELSE categorize_product(parse_comma_separated_tags(r.size)).gender_list

\* the source rows a pass writes to an output, in source order
SourceRows(t) ==
    LET WrittenTo(r) ==
            IF script = "adder" THEN TRUE
            ELSE IF script = "updater"
            THEN updater_matches(r, brand_name, size_label)
            ELSE /\ r.brand = HappySocks
                 /\ categorize_product(parse_comma_separated_tags(r.size)).category = t
    IN  SelectSeq(ws_input, WrittenTo)

\* row k of an output is the first row of its handle there
Leader(t, k) == k = Min(RowsOf(t, ws_output[t][k].handle))

\* the cell holds a JSON array text that decodes to the list xs
IsJsonArrayOf(cell, xs) ==
    /\ cell.ty = "str"
    /\ json_loads(cell.v).ok
    /\ json_loads(cell.v).val = PyList(xs)

C17_NeverRaises ==
    /\ pc # "raised"
    /\ script = "adder" => Len(ws_output["output"]) = Len(ws_input)

----------------------------------------------------------------------------
(* Chains of update_gender_list calls, under SpecMerge *)

\* no element of xs is repeated
NoDup(xs) == \A i, j \in DOMAIN xs : i # j => xs[i] # xs[j]

\* a call on a list without repeated element returns one
MergeKeepsNoDup ==
    (MergeCalled /\ NoDup(current_genders)) => NoDup(updated_genders)

\* a step from a list without repeated element leads to one
NoDupStays == NoDup(updated_genders) => NoDup(updated_genders')

\* C18: for every list without repeated element and every incoming value the
\* list update_gender_list returns has no repeated element, so a sequence of
\* merges that starts from such a list (the empty list too) never leaves the
\* lists without repeated element.
C18_NoDuplicates == []MergeKeepsNoDup /\ [][NoDupStays]_vars

\* two merges from the empty list: "Male", then "Female" in its place
C18_Witness ==
    /\ MergeCalled
    /\ stats.calls = 2
    /\ current_genders = <<Male>>
    /\ gender = Female
    /\ updated_genders = <<Female>>

----------------------------------------------------------------------------
(* The trackers of the splitter, under Spec *)

\* the category of the row a step reads ("None": no output, or no row read)
CategoryRead ==
    IF Len(ws_input') = Len(ws_input) THEN "None"
    ELSE LET r == ws_input'[Len(ws_input')]
         IN  IF r.brand # HappySocks THEN "None"
             ELSE categorize_product(parse_comma_separated_tags(r.size)).category

\* a step changes no tracker but the one of the category it writes to
OtherTrackersUnchanged ==
    script = "splitter"
    => \A c \in Categories :
          c # CategoryRead => seen_handles'[c] = seen_handles[c]

\* each tracker holds the handles written to its own output, and a row
\* carries its gender list exactly when no earlier row of that output has
\* its handle
TrackerPerOutput ==
    script = "splitter"
    => \A c \in Categories :
          /\ seen_handles[c] = HandlesOf(c)
          /\ \A k \in DOMAIN ws_output[c] :
                ~Blank(ws_output[c][k].gender) <=> Leader(c, k)

\* C19: each of the three outputs of the splitter has its own seen-handle
\* set; recording a handle in one leaves the other two unchanged, so whether
\* a row leads is decided by the earlier rows of its own output only, and a
\* handle whose rows fall into two categories is written with its gender
\* list on its first row in each of the two outputs.
C19_IndependentTrackers ==
    []TrackerPerOutput /\ [][OtherTrackersUnchanged]_vars

\* Sock-A with size_36_40, then Sock-A with size_41_46: a leader in both outputs
C19_Witness ==
    /\ script = "splitter"
    /\ Len(ws_input) = 2
    /\ seen_handles = [c \in Categories |->
                          IF c = "unisex" THEN {} ELSE {H1}]
    /\ IsJsonArrayOf(ws_output["female_only"][1].gender, <<Female>>)
    /\ IsJsonArrayOf(ws_output["male_only"][1].gender, <<Male>>)

----------------------------------------------------------------------------
(* One splitter pass from end to end, under Spec *)

\* the pass has read exactly the Happy Socks rows (Sock-A, size_36_40),
\* (Sock-A, size_36_40), (Sock-B, size_41_46)
ScenarioRead ==
    /\ script = "splitter"
    /\ Len(ws_input) = 3
    /\ \A k \in 1..3 : ws_input[k].brand = HappySocks
    /\ <<ws_input[1].handle, ws_input[2].handle, ws_input[3].handle>>
          = <<H1, H1, H2>>
    /\ <<ws_input[1].size, ws_input[2].size, ws_input[3].size>>
          = <<cellSize3640, cellSize3640, cellSize4146>>

\* the text ["Female"]
textFemaleList == <<91, 34, 70, 101, 109, 97, 108, 101, 34, 93>>

\* C20: a splitter pass over (Sock-A, size_36_40), (Sock-A, size_36_40),
\* (Sock-B, size_41_46) gives a female-only output of exactly 2 data rows,
\* both Sock-A, the gender cell ["Female"] on the first and blank on the
\* second; a male-only output of exactly 1 data row, Sock-B, with the gender
\* cell ["Male"]; and a unisex output without data rows.
C20_SplitScenario ==
    ScenarioRead
    => /\ Len(ws_output["female_only"]) = 2
       /\ ws_output["female_only"][1].handle = H1
       /\ ws_output["female_only"][2].handle = H1
       /\ ws_output["female_only"][1].gender = PyStr(textFemaleList)
       /\ Blank(ws_output["female_only"][2].gender)
       /\ Len(ws_output["male_only"]) = 1
       /\ ws_output["male_only"][1].handle = H2
       /\ ws_output["male_only"][1].gender = cellMale
       /\ ws_output["unisex"] = <<>>

\* the three rows read and the outputs saved
C20_Witness ==
    /\ ScenarioRead
    /\ pc = "saved"
    /\ stats.female_only = 1
    /\ stats.male_only = 1
    /\ Len(ws_output["female_only"]) = 2
    /\ Len(ws_output["male_only"]) = 1

----------------------------------------------------------------------------
(* Properties of the tag list codec, under SpecCodec.  In a state with       *)
(* pc = "decoded" cell_text = format_json_list(current_genders) and          *)
(* updated_genders = parse_json_list(cell_text).                             *)

\* C21: the codec round trip: for every non-empty ordered list L of string
\* tags (repeated tags allowed) parse_json_list(format_json_list(L)) = L, the
\* same elements in the same order, none dropped, merged or deduplicated.
C21_RoundTrip ==
    (script = "codec" /\ pc = "decoded" /\ current_genders # <<>>)
    => /\ updated_genders = current_genders
       /\ cell_text.ty = "str"

\* a repeated tag beside tags that hold a quote and a comma
C21_Witness ==
    /\ script = "codec"
    /\ pc = "decoded"
    /\ current_genders = <<PyStr(<<34>>), PyStr(<<97, 44, 98>>), PyStr(<<34>>)>>
    /\ updated_genders = current_genders

----------------------------------------------------------------------------
(* What the passes leave alone, under Spec *)

\* row k of the output is row k of the input in every column but the gender
\* column
SameButGender(out, in) ==
    /\ out.handle = in.handle
    /\ out.brand = in.brand
    /\ out.size = in.size

\* the rows the unisex adder has written are the rows it has read, in their
\* order, changed in the gender column only
AdderRowsPreserved ==
    /\ Len(ws_output["output"]) = Len(ws_input)
    /\ \A k \in DOMAIN ws_input :
          SameButGender(ws_output["output"][k], ws_input[k])

\* C22: for every input grid the output of the unisex adder has exactly one
\* row per input data row, in the same order, and every cell outside the
\* gender column equals the input cell: once the pass has ended on the rows
\* it was given, the rows written are the rows read, changed in the gender
\* column only.
C22_AdderPreserves ==
    (script = "adder" /\ pc \in {"saved", "raised"}) => AdderRowsPreserved

----------------------------------------------------------------------------
(* The partition of the splitter, under Spec *)

\* the two sizes of the split among the size tags of a row
SplitSizesOf(r) ==
    LET tags == parse_comma_separated_tags(r.size)
    IN  {sz \in {sSize3640, sSize4146} : In(PyStr(sz), tags)}

\* the output a source row belongs to ("None": no output)
OutputOf(r) ==
    IF r.brand # HappySocks THEN "None"
    ELSE LET sizes == SplitSizesOf(r)
         IN  IF sizes = {sSize3640, sSize4146} THEN "unisex"
             ELSE IF sizes = {sSize3640} THEN "female_only"
             ELSE IF sizes = {sSize4146} THEN "male_only"
             ELSE "None"

RowsWritten ==
    Len(ws_output["female_only"]) + Len(ws_output["male_only"])
        + Len(ws_output["unisex"])

\* out[k] is the output of source row k: each output holds the source rows
\* that belong to it, once each and in source order (source row k is row
\* Place(k) of its output), the other rows are in no output, and the
\* counters count the Happy Socks rows and those of them in no output
PartitionBy(out) ==
    LET Of(c) == {k \in DOMAIN ws_input : out[k] = c}
        Place(k) == Cardinality({j \in 1..k : out[j] = out[k]})
        HappySocksRead ==
            {k \in DOMAIN ws_input : ws_input[k].brand = HappySocks}
    IN  /\ \A c \in Categories : Len(ws_output[c]) = Cardinality(Of(c))
        /\ \A k \in DOMAIN ws_input :
              out[k] # "None"
                 => SameButGender(ws_output[out[k]][Place(k)], ws_input[k])
        /\ stats.skipped = Cardinality(HappySocksRead \cap Of("None"))
        /\ stats.happy_socks_found = Cardinality(HappySocksRead)

\* C23: in a pass of split_happy_socks every source row of brand Happy
\* Socks is written to exactly one of the three outputs, the one of its own
\* size tags, or counted as skipped, and never to two outputs; a row of
\* another brand is written to no output; and after every row
\* happy_socks_found is the number of rows written to the three outputs plus
\* the skipped count.
C23_SplitterPartition ==
    script = "splitter"
    => /\ \A out \in {[k \in DOMAIN ws_input |-> OutputOf(ws_input[k])]} :
             PartitionBy(out)
       /\ stats.happy_socks_found = RowsWritten + stats.skipped

\* four rows read: one for the female-only output, one for the unisex
\* output, one Happy Socks row with neither size, one row of another brand
C23_Witness ==
    /\ script = "splitter"
    /\ stats.rows_processed = 4
    /\ stats.happy_socks_found = 3
    /\ stats.skipped = 1
    /\ Len(ws_output["female_only"]) = 1
    /\ Len(ws_output["unisex"]) = 1
    /\ ws_output["male_only"] = <<>>

----------------------------------------------------------------------------
(* Male and Female through chains of merges, under SpecMerge.  In a state   *)
(* with pc = "called" updated_genders is update_gender_list applied to      *)
(* current_genders and gender, and current_genders is the list the call     *)
(* before returned (or the drawn starting list).                            *)

\* the list holds both "Male" and "Female"
BothGenders(xs) == In(Male, xs) /\ In(Female, xs)

\* every spelling of male or female in the list is "Male" or "Female"
ExactSpelling(xs) ==
    \A i \in DOMAIN xs :
        lower(xs[i].v) \in {sLowerMale, sLowerFemale}
            => xs[i] \in {Male, Female}

\* a merge of "Male" or "Female" into a list that does not hold both
MergedMaleOrFemale ==
    /\ MergeCalled
    /\ gender \in {Male, Female}
    /\ ~BothGenders(current_genders)

\* C24 as stated: from a list that does not contain both "Male" and
\* "Female", every update_gender_list call with incoming "Male" or "Female"
\* returns a list that does not contain both, so through any sequence of such
\* calls the list never contains both, and the completeness rule of the
\* unisex adder (should_add_unisex) never fires on a list such merges return.
C24_NeverCoexist ==
    MergedMaleOrFemale
    => /\ ~BothGenders(updated_genders)
       /\ ~should_add_unisex(updated_genders)

\* C24 amended: from a list that does not contain both "Male" and "Female",
\* every merge of "Male" or "Female" returns a list that does not contain
\* both; and when every spelling of male or female in the starting list is
\* "Male" or "Female", the returned list is spelled so too and the
\* completeness rule of the unisex adder does not fire on it.
C24_NeverCoexistAmended ==
    MergedMaleOrFemale
    => /\ ~BothGenders(updated_genders)
       /\ ExactSpelling(current_genders)
             => /\ ExactSpelling(updated_genders)
                /\ ~should_add_unisex(updated_genders)

\* the second of two merges: "Male" takes the place of "Female" beside "Kids"
C24_Witness ==
    /\ MergeCalled
    /\ stats.calls = 2
    /\ current_genders = <<Female, PyStr(sKids)>>
    /\ gender = Male
    /\ updated_genders = <<Male, PyStr(sKids)>>

----------------------------------------------------------------------------
(* The unisex adder on its own output, under SpecRerun.  In a state with    *)
(* pc "rerun" or "resaved" ws_input holds the rows the first run saved and  *)
(* ws_output the rows the second run has written.                           *)

\* the second run is under way or has saved
SecondRun == script = "adder" /\ pc \in {"rerun", "rerun_raised", "resaved"}

\* the first n elements of a sequence
Prefix(xs, n) == [k \in 1..n |-> xs[k]]

\* C25: running the unisex adder on the output of a run of the unisex adder
\* gives a grid equal to that output cell for cell: the second run does not
\* raise, every row it writes equals the row it read (no Unisex added, no
\* non-blank cell blanked), its rows_with_unisex_added counter stays 0, and
\* what it saves is the whole of its input.
C25_RerunIdentity ==
    SecondRun
    => /\ pc # "rerun_raised"
       /\ Len(ws_output["output"]) <= Len(ws_input)
       /\ ws_output["output"] = Prefix(ws_input, Len(ws_output["output"]))
       /\ stats.rows_with_unisex_added = 0
       /\ pc = "resaved" => ws_output["output"] = ws_input

\* the second run has saved three rows: Sock-A with the list the first run
\* completed with Unisex, a second Sock-A row (blank), Sock-B with ["Male"]
C25_Witness ==
    /\ script = "adder" /\ pc = "resaved"
    /\ Len(ws_input) = 3
    /\ <<ws_input[1].handle, ws_input[2].handle, ws_input[3].handle>>
          = <<H1, H1, H2>>
    /\ ws_input[1].gender = format_json_list(<<Male, Female, Unisex>>)
    /\ Blank(ws_input[2].gender)
    /\ ws_input[3].gender = cellMale
    /\ ws_output["output"] = ws_input
    /\ stats.rows_unchanged = 2

====
